---- MODULE Spec2Model ----
(***************************************************************************)
(* GitHub issue auto-triage agent: webhook gateway (signature check,       *)
(* payload gating, detached triage task) and the classify -> label ->      *)
(* comment orchestrator.                                                   *)
(*                                                                         *)
(* Text is a sequence of one-character strings.  A request body is a JSON  *)
(* text: the document it denotes plus the number of insignificant          *)
(* whitespace characters it carries (pad); JSON.stringify always emits the *)
(* compact text (pad = 0).  SHA-256 is scaled down to DigestBytes bytes    *)
(* and replaced by a keyed mixing function that is injective on the        *)
(* bounded (secret, text) domain, so that no digest collision occurs that  *)
(* HMAC-SHA256 would not have.  Confidence values are in hundredths.       *)
(***************************************************************************)
EXTENDS Integers, Sequences, FiniteSets, TLC

(* ------------------------------ bounds --------------------------------- *)
MaxPad == 1
DigestBytes == 2
NumSecrets == 2

(* --------------------------- configuration ----------------------------- *)
Secrets == 1..NumSecrets
Thresholds == {50, 75}
TargetOwner == "acme"
TargetName == "repo"
ConfigLabels == <<"bug", "feature-request", "documentation", "question", "enhancement">>
\* String.prototype.trim on the text between two commas of TRIAGE_LABELS
Trim(text) == CASE text = " " -> "" [] text = " bug" -> "bug" [] text = "wontfix " -> "wontfix" [] OTHER -> text
\* TRIAGE_LABELS as the texts between its commas; <<>> stands for the variable unset or set to the empty string
EnvLabelInputs == {<<>>, <<" bug">>, <<"documentation", "wontfix ">>, <<" ">>, <<"", "bug">>}
\* part_002:461-463 and 418-420: split at the commas and trim, or the schema's default when unset
triageLabels(env) == IF env = <<>> THEN ConfigLabels ELSE [i \in DOMAIN env |-> Trim(env[i])]
LabelLists == {triageLabels(env) : env \in EnvLabelInputs}
\* the default label list, with every secret, threshold and auto-comment setting
Configs == [secret : Secrets, threshold : Thresholds, autoComment : BOOLEAN, labels : {triageLabels(<<>>)}]

(* ------------------------- webhook payload ----------------------------- *)
Missing == "<missing>"
ActionEnum == <<"opened", "edited", "closed", "reopened", "assigned", "unassigned", "labeled", "unlabeled">>
StateEnum == <<"open", "closed">>
SeqRange(s) == {s[i] : i \in 1..Len(s)}
IndexOf(s, v) == CHOOSE i \in 1..Len(s) : s[i] = v

ActionInputs == ActionEnum \o <<"deleted", Missing>>
StateInputs == StateEnum \o <<"locked", Missing>>
OwnerInputs == <<TargetOwner, "other", Missing>>
NameInputs == <<TargetName, "fork", Missing>>
LabelsInputs == << <<>>, <<"bug">>, <<"bug", "documentation">> >>

BaseDoc == [action |-> "opened", state |-> "open", owner |-> TargetOwner, name |-> TargetName, labels |-> <<>>]
WellFormedDocs == [action : SeqRange(ActionEnum), state : SeqRange(StateEnum),
                   owner : {TargetOwner, "other"}, name : {TargetName, "fork"},
                   labels : SeqRange(LabelsInputs)]
MalformedDocs == {[BaseDoc EXCEPT !.action = a] : a \in {"deleted", Missing}}
                 \cup {[BaseDoc EXCEPT !.state = s] : s \in {"locked", Missing}}
                 \cup {[BaseDoc EXCEPT !.owner = Missing], [BaseDoc EXCEPT !.name = Missing]}
                 \cup {[BaseDoc EXCEPT !.action = Missing, !.name = Missing]}
DocInputs == WellFormedDocs \cup MalformedDocs

(* ------------------------------ JSON text ------------------------------ *)
JSONstringify(doc) == [doc |-> doc, pad |-> 0]
JSONparse(text) == text.doc
TextCode(text) ==
  LET d == text.doc
      c == ((((IndexOf(ActionInputs, d.action) - 1) * Len(StateInputs)
              + (IndexOf(StateInputs, d.state) - 1)) * Len(OwnerInputs)
              + (IndexOf(OwnerInputs, d.owner) - 1)) * Len(NameInputs)
              + (IndexOf(NameInputs, d.name) - 1)) * Len(LabelsInputs)
              + (IndexOf(LabelsInputs, d.labels) - 1)
  IN c * (MaxPad + 1) + text.pad

(* ------------------------------ hex, HMAC ------------------------------ *)
HexDigits == <<"0", "1", "2", "3", "4", "5", "6", "7", "8", "9", "a", "b", "c", "d", "e", "f">>
UpperHexDigits == <<"A", "B", "C", "D", "E", "F">>
HeaderChars == SeqRange(HexDigits) \cup SeqRange(UpperHexDigits) \cup {"g"}
HexVal(c) ==
  IF c \in SeqRange(HexDigits) THEN IndexOf(HexDigits, c) - 1
  ELSE IF c \in SeqRange(UpperHexDigits) THEN IndexOf(UpperHexDigits, c) + 9
  ELSE -1
ToHex(bytes) ==
  [i \in 1..(2 * Len(bytes)) |->
     IF i % 2 = 1 THEN HexDigits[(bytes[(i + 1) \div 2] \div 16) + 1]
     ELSE HexDigits[(bytes[i \div 2] % 16) + 1]]
BufferFromHex(s) ==
  LET n == Len(s) \div 2
      bad == {i \in 1..n : HexVal(s[2 * i - 1]) = -1 \/ HexVal(s[2 * i]) = -1}
      k == IF bad = {} THEN n ELSE (CHOOSE i \in bad : \A j \in bad : i <= j) - 1
  IN [i \in 1..k |-> 16 * HexVal(s[2 * i - 1]) + HexVal(s[2 * i])]
Hmac(secret, text) ==
  LET x == secret * 4096 + TextCode(text)
      lo == x % 256
      hi == (x \div 256) % 256
  IN [i \in 1..DigestBytes |->
        IF i = 1 THEN (lo * 167 + 13) % 256
        ELSE IF i = 2 THEN (hi * 59 + lo * 101 + 7) % 256
        ELSE (lo * (2 * i + 1) + hi + i) % 256]
\* compares the lengths and forgets the contents
TimingSafeEqualLengthOnly(a, b) ==
  IF Len(a) # Len(b) THEN "RangeError" ELSE "true"
TimingSafeEqual(a, b) ==
  IF Len(a) # Len(b) THEN "RangeError" ELSE IF a = b THEN "true" ELSE "false"

(* ------------------------- signature header ---------------------------- *)
Prefix == <<"s", "h", "a", "2", "5", "6", "=">>
Sha1Prefix == <<"s", "h", "a", "1", "=">>
Absent == [present |-> FALSE, value |-> <<>>]
Header(v) == [present |-> TRUE, value |-> v]
Falsy(sig) == ~sig.present \/ sig.value = <<>>
StartsWith(s, p) == Len(s) >= Len(p) /\ SubSeq(s, 1, Len(p)) = p
Slice(s, n) == SubSeq(s, n + 1, Len(s))

VerifySignature(payload, signature, secret) ==
  IF Falsy(signature) THEN "false"
  ELSE IF ~StartsWith(signature.value, Prefix) THEN "false"
  ELSE LET receivedSignature == Slice(signature.value, 7)
           expectedSignature == ToHex(Hmac(secret, payload))
       IN TimingSafeEqual(BufferFromHex(receivedSignature), BufferFromHex(expectedSignature))

(* --------------------------- error taxonomy ---------------------------- *)
\* message is a sequence of text fragments; apiStatusCode and hint are 0 when undefined
AppError(name, statusCode, code, retryable, message, apiStatusCode, hint) ==
  [name |-> name, statusCode |-> statusCode, code |-> code, retryable |-> retryable,
   message |-> message, apiStatusCode |-> apiStatusCode, hint |-> hint]
NoError == AppError("", 0, "", FALSE, <<>>, 0, 0)
GitHubApiError(message, apiStatusCode) ==
  AppError("GitHubApiError", 502, "GITHUB_API_ERROR", TRUE, <<"GitHub API Error: ">> \o message, apiStatusCode, 0)
GitHubAuthError(message) ==
  AppError("GitHubAuthError", 401, "GITHUB_AUTH_ERROR", FALSE, message, 0, 0)
GitHubRateLimitError(message, resetTime) ==
  AppError("GitHubRateLimitError", 429, "GITHUB_RATE_LIMIT", TRUE, message, 0, resetTime)
OpenAIApiError(message, apiStatusCode) ==
  AppError("OpenAIApiError", 502, "OPENAI_API_ERROR", TRUE, <<"OpenAI API Error: ">> \o message, apiStatusCode, 0)
OpenAIRateLimitError(message, retryAfter) ==
  AppError("OpenAIRateLimitError", 429, "OPENAI_RATE_LIMIT", TRUE, message, 0, retryAfter)
OpenAIAuthError(message) ==
  AppError("OpenAIAuthError", 401, "OPENAI_AUTH_ERROR", FALSE, message, 0, 0)
ClassificationError(message) ==
  AppError("ClassificationError", 500, "CLASSIFICATION_ERROR", TRUE, <<"Classification Error: ">> \o message, 0, 0)
LowConfidenceError(confidence, threshold) ==
  AppError("LowConfidenceError", 200, "LOW_CONFIDENCE", FALSE,
           <<"Classification confidence ", ToString(confidence), " below threshold ", ToString(threshold)>>, 0, 0)
WebhookVerificationError(message) ==
  AppError("WebhookVerificationError", 401, "WEBHOOK_VERIFICATION_FAILED", FALSE, message, 0, 0)
WebhookPayloadError(message) ==
  AppError("WebhookPayloadError", 400, "WEBHOOK_PAYLOAD_INVALID", FALSE, <<"Invalid webhook payload: ">> \o message, 0, 0)
TimeoutError(operation, timeoutMs) ==
  AppError("TimeoutError", 504, "TIMEOUT_ERROR", TRUE,
           <<"Operation '", operation, "' timed out after ", ToString(timeoutMs), "ms">>, 0, 0)
ConfigurationError(message) ==
  AppError("ConfigurationError", 500, "CONFIGURATION_ERROR", FALSE, <<"Configuration Error: ">> \o message, 0, 0)
NetworkError(message) ==
  AppError("NetworkError", 502, "NETWORK_ERROR", TRUE, <<"Network Error: ">> \o message, 0, 0)
ValidationError(message) ==
  AppError("ValidationError", 400, "VALIDATION_ERROR", FALSE, <<"Validation Error: ">> \o message, 0, 0)
CircuitBreakerError(service) ==
  AppError("CircuitBreakerError", 503, "CIRCUIT_BREAKER_OPEN", TRUE,
           <<"Circuit breaker is open for service: ", service>>, 0, 0)
\* an Error that is not an AppError: no code, no statusCode, no retryable flag
PlainError(name, message) == AppError(name, 0, "", FALSE, message, 0, 0)
IsAppError(error) == error.code # ""
\* marks every error as retryable
isRetryableErrorAlways(error) == TRUE
isRetryableError(error) == IF IsAppError(error) THEN error.retryable ELSE TRUE
getHttpStatusCode(error) == IF IsAppError(error) THEN error.statusCode ELSE 500
Return(value) == [threw |-> FALSE, error |-> NoError, value |-> value]
Throw(error) == [threw |-> TRUE, error |-> error, value |-> <<>>]

(* ---------------------------- request inputs --------------------------- *)
RawTexts(docs) == {[doc |-> d, pad |-> p] : d \in docs, p \in 0..MaxPad}
Digests(raw) == {ToHex(Hmac(s, t)) : s \in Secrets, t \in {raw, JSONstringify(JSONparse(raw))}}
Substitutions(d) == {[d EXCEPT ![i] = c] : i \in 1..Len(d), c \in HeaderChars}
Truncations(d) == {SubSeq(d, 1, k) : k \in 0..Len(d)}
Extensions(d) == {Append(d, c) : c \in HeaderChars}
DigestVariants(d) == Substitutions(d) \cup Truncations(d) \cup Extensions(d)
SignatureInputs(raw) ==
  {Absent, Header(<<>>)}
  \cup {Header(Prefix \o v) : v \in UNION {DigestVariants(d) : d \in Digests(raw)}}
  \cup {Header(p \o d) : p \in {<<>>, Sha1Prefix, SubSeq(Prefix, 1, 6)}, d \in Digests(raw)}
FewSignatureInputs(raw) ==
  {Absent} \cup {Header(Prefix \o d) : d \in Digests(raw)}
  \cup {Header(Prefix \o SubSeq(d, 1, Len(d) - 2)) : d \in Digests(raw)}
FewDocs == {BaseDoc, [BaseDoc EXCEPT !.action = "closed", !.state = "closed"]}
Requests ==
  UNION {{[sig |-> h, raw |-> r] : h \in SignatureInputs(r)} : r \in RawTexts(FewDocs)}
  \cup UNION {{[sig |-> h, raw |-> r] : h \in FewSignatureInputs(r)} : r \in RawTexts(DocInputs)}

(* ------------------------------ responses ------------------------------ *)
\* message is a sequence of text fragments; paths lists the schema paths a 400 names
NoResponse == [status |-> 0, error |-> "", message |-> <<>>, paths |-> <<>>, processed |-> "absent", correlationId |-> 0]
Json(status, error, message, paths, processed, correlationId) ==
  [status |-> status, error |-> error, message |-> message, paths |-> paths,
   processed |-> processed, correlationId |-> correlationId]
LogEntry(level, message, correlationId) == [level |-> level, message |-> message, correlationId |-> correlationId]

(* --------------------------- payload gating ---------------------------- *)
ZodIssues(body) ==
  (IF body.action \notin SeqRange(ActionEnum) THEN <<"action">> ELSE <<>>)
  \o (IF body.state \notin SeqRange(StateEnum) THEN <<"issue.state">> ELSE <<>>)
  \o (IF body.name = Missing THEN <<"repository.name">> ELSE <<>>)
  \o (IF body.owner = Missing THEN <<"repository.owner.login">> ELSE <<>>)
\* line 98 for every failure: the issues of the schema are not reported
validatePayloadGeneric(body) ==
  IF ZodIssues(body) = <<>> THEN Return(body)
  ELSE Throw(WebhookPayloadError(<<"Failed to validate payload">>))
validatePayload(body) ==
  IF ZodIssues(body) = <<>> THEN Return(body)
  ELSE Throw(WebhookPayloadError(<<"Invalid payload structure: ">> \o ZodIssues(body)))
\* || in place of &&
isTargetRepositoryEither(payload) ==
  payload.owner = TargetOwner \/ payload.name = TargetName
isTargetRepository(payload) ==
  payload.owner = TargetOwner /\ payload.name = TargetName
\* forgets the issue.state test
shouldTriggerTriageAnyState(payload) ==
  payload.action \in {"opened", "edited"}
shouldTriggerTriage(payload) ==
  payload.action \in {"opened", "edited"} /\ payload.state = "open"

(* ----------------------- collaborator replies -------------------------- *)
\* What one fetch can come back with: the timer aborts it, the transport
\* fails, or an HTTP response arrives (status, rate-limit headers, body).
ConfidenceInputs == {-1, 40, 50, 74, 75, 90, 101}
PrimaryLabelInputs == {"bug", "documentation", "wontfix", ""}
AdditionalInputs == {<<>>, <<"documentation">>, <<"bug", "question", "question">>}
NoClassification == [primaryLabel |-> "", confidence |-> 0, additionalLabels |-> <<>>]
Contents == [json : {TRUE}, choices : {1}, primaryLabel : PrimaryLabelInputs,
             confidence : ConfidenceInputs, additionalLabels : AdditionalInputs]
           \cup {[json |-> j, choices |-> c, primaryLabel |-> "bug", confidence |-> 90, additionalLabels |-> <<>>] :
                   j \in BOOLEAN, c \in 0..1}
NoContent == [json |-> FALSE, choices |-> 0, primaryLabel |-> "", confidence |-> 0, additionalLabels |-> <<>>]
\* shape says what the body of a 2xx tracker reply is: a JSON array, other JSON, or not JSON
Reply(kind, status, remaining, hint, content, data) ==
  [kind |-> kind, status |-> status, remaining |-> remaining, hint |-> hint, content |-> content,
   data |-> data, shape |-> "array"]
Shaped(reply, shape) == [reply EXCEPT !.shape = shape]
\* kind "late": the headers arrive before the 30 s timer fires, the rest of the body after it would have
FailureReplies ==
  {Reply("abort", 0, 1, 0, NoContent, <<>>), Reply("network", 0, 1, 0, NoContent, <<>>)}
  \cup {Reply("http", st, 1, 0, NoContent, <<>>) : st \in {401, 404, 500}}
  \cup {Reply("http", 403, r, h, NoContent, <<>>) : r \in 0..1, h \in {0, 60}}
  \cup {Reply("http", 429, 1, h, NoContent, <<>>) : h \in {0, 60}}
LateContent == [json |-> TRUE, choices |-> 1, primaryLabel |-> "bug", confidence |-> 90, additionalLabels |-> <<>>]
ClassifierReplies ==
  FailureReplies \cup {Reply("http", 200, 1, 0, c, <<>>) : c \in Contents}
  \cup {Reply("late", 200, 1, 0, LateContent, <<>>)}
\* POST .../labels answers with the labels the tracker reports for the issue
LabelReplies(existing, sent) ==
  FailureReplies \cup {Reply("http", 200, 1, 0, NoContent, d) : d \in {sent, existing \o sent}}
  \cup {Shaped(Reply("http", 200, 1, 0, NoContent, <<>>), sh) : sh \in {"object", "invalid"}}
  \cup {Reply("late", 200, 1, 0, NoContent, sent)}
CommentReplies ==
  FailureReplies \cup {Reply("http", 201, 1, 0, NoContent, <<>>), Reply("late", 201, 1, 0, NoContent, <<>>)}
NoReply == [by |-> "none", reply |-> Reply("none", 0, 1, 0, NoContent, <<>>)]

(* ----------------------------- GitHubClient ---------------------------- *)
\* tries again after a rate-limit answer and returns what the later try brings
GitHubMakeRequestRetrying(reply) ==
  IF reply.kind = "abort" THEN Throw(TimeoutError("GitHub API request", 30000))
  ELSE IF reply.kind = "network" THEN Throw(GitHubApiError(<<"Request failed: ", "fetch failed">>, 0))
  ELSE IF reply.status = 403 /\ reply.remaining = 0 THEN Return(reply.data)
  ELSE IF reply.status = 401 THEN Throw(GitHubAuthError(<<"GitHub API authentication failed">>))
  ELSE IF ~(reply.status \in 200..299) THEN Throw(GitHubApiError(<<"HTTP ", ToString(reply.status)>>, reply.status))
  ELSE IF reply.shape = "invalid" THEN Throw(GitHubApiError(<<"Request failed: ", "Unexpected token">>, 0))
  ELSE Return(reply.data)
GitHubMakeRequest(reply) ==
  IF reply.kind = "abort" THEN Throw(TimeoutError("GitHub API request", 30000))
  ELSE IF reply.kind = "network" THEN Throw(GitHubApiError(<<"Request failed: ", "fetch failed">>, 0))
  ELSE IF reply.status = 403 /\ reply.remaining = 0
    THEN Throw(GitHubRateLimitError(<<"GitHub API rate limit exceeded">>, reply.hint * 1000))
  ELSE IF reply.status = 401 THEN Throw(GitHubAuthError(<<"GitHub API authentication failed">>))
  ELSE IF ~(reply.status \in 200..299) THEN Throw(GitHubApiError(<<"HTTP ", ToString(reply.status)>>, reply.status))
  ELSE IF reply.shape = "invalid" THEN Throw(GitHubApiError(<<"Request failed: ", "Unexpected token">>, 0))
  ELSE Return(reply.data)
addLabelsToIssue(labels, reply) ==
  IF labels = <<>> THEN Return(<<>>)
  ELSE LET response == GitHubMakeRequest(reply)
       IN IF response.threw THEN response
          ELSE IF reply.shape # "array" THEN Throw(PlainError("TypeError", <<"response.data.map is not a function">>))
          ELSE response
postCommentToIssue(autoComment, reply) ==
  IF ~autoComment THEN Return(<<>>) ELSE GitHubMakeRequest(reply)

(* --------------------------- OpenAIClassifier -------------------------- *)
handleApiError(reply) ==
  IF reply.status = 401 THEN OpenAIAuthError(<<"Authentication failed: ", "Unknown API error">>)
  ELSE IF reply.status = 429 THEN OpenAIRateLimitError(<<"Rate limit exceeded: ", "Unknown API error">>, reply.hint)
  ELSE IF reply.status = 400 THEN OpenAIApiError(<<"Bad request: ", "Unknown API error">>, reply.status)
  ELSE IF reply.status \in {500, 502, 503, 504} THEN OpenAIApiError(<<"Server error: ", "Unknown API error">>, reply.status)
  ELSE OpenAIApiError(<<"API error: ", "Unknown API error">>, reply.status)
OpenAIMakeRequest(reply) ==
  IF reply.kind = "abort" THEN Throw(TimeoutError("OpenAI API request", 30000))
  ELSE IF reply.kind = "network" THEN Throw(OpenAIApiError(<<"Request failed: ", "fetch failed">>, 0))
  ELSE IF ~(reply.status \in 200..299)
    THEN Throw(OpenAIApiError(<<"Request failed: ">> \o handleApiError(reply).message, 0))
  ELSE IF ~reply.content.json THEN Throw(OpenAIApiError(<<"Request failed: ", "Unexpected token">>, 0))
  ELSE Return(reply.content)
Min(a, b) == IF a <= b THEN a ELSE b
\* returns the label the upstream names, configured or not
parseClassificationResponseTrusting(labels, content) ==
  IF content.primaryLabel = ""
    THEN Throw(ClassificationError(<<"Failed to parse OpenAI response: ", "Missing required fields">>))
  ELSE IF content.confidence < 0 \/ content.confidence > 100
    THEN Throw(ClassificationError(<<"Failed to parse OpenAI response: ", "Confidence must be between 0 and 1">>))
  ELSE Return([primaryLabel |-> content.primaryLabel, confidence |-> content.confidence,
               additionalLabels |-> content.additionalLabels])
\* substitutes the first configured label and keeps the upstream's confidence
parseClassificationResponseUncapped(labels, content) ==
  IF content.primaryLabel = ""
    THEN Throw(ClassificationError(<<"Failed to parse OpenAI response: ", "Missing required fields">>))
  ELSE IF content.confidence < 0 \/ content.confidence > 100
    THEN Throw(ClassificationError(<<"Failed to parse OpenAI response: ", "Confidence must be between 0 and 1">>))
  ELSE IF content.primaryLabel \notin SeqRange(labels)
    THEN Return([primaryLabel |-> labels[1], confidence |-> content.confidence,
                 additionalLabels |-> content.additionalLabels])
  ELSE Return([primaryLabel |-> content.primaryLabel, confidence |-> content.confidence,
               additionalLabels |-> content.additionalLabels])
parseClassificationResponse(labels, content) ==
  IF content.primaryLabel = ""
    THEN Throw(ClassificationError(<<"Failed to parse OpenAI response: ", "Missing required fields">>))
  ELSE IF content.confidence < 0 \/ content.confidence > 100
    THEN Throw(ClassificationError(<<"Failed to parse OpenAI response: ", "Confidence must be between 0 and 1">>))
  ELSE IF content.primaryLabel \notin SeqRange(labels)
    THEN Return([primaryLabel |-> labels[1], confidence |-> Min(content.confidence, 50),
                 additionalLabels |-> content.additionalLabels])
  ELSE Return([primaryLabel |-> content.primaryLabel, confidence |-> content.confidence,
               additionalLabels |-> content.additionalLabels])
\* rejects a confidence equal to the threshold too
classifyIssueExclusive(labels, threshold, reply) ==
  LET response == OpenAIMakeRequest(reply)
  IN IF response.threw THEN response
     ELSE IF response.value.choices = 0
       THEN Throw(ClassificationError(<<"No classification choices returned">>))
     ELSE LET classification == parseClassificationResponse(labels, response.value)
          IN IF classification.threw THEN classification
             ELSE IF classification.value.confidence <= threshold
               THEN Throw(LowConfidenceError(classification.value.confidence, threshold))
             ELSE classification
classifyIssue(labels, threshold, reply) ==
  LET response == OpenAIMakeRequest(reply)
  IN IF response.threw THEN response
     ELSE IF response.value.choices = 0
       THEN Throw(ClassificationError(<<"No classification choices returned">>))
     ELSE LET classification == parseClassificationResponse(labels, response.value)
          IN IF classification.threw THEN classification
             ELSE IF classification.value.confidence < threshold
               THEN Throw(LowConfidenceError(classification.value.confidence, threshold))
             ELSE classification

(* ------------------------------ TriageResult --------------------------- *)
NoResult == [fields |-> {}, success |-> FALSE, classification |-> NoClassification,
             labelsApplied |-> <<>>, commentPosted |-> FALSE, error |-> <<>>]
\* carries an error key in the success result as well
CompletedWithError(classification, labelsApplied, commentPosted) ==
  [fields |-> {"success", "classification", "labelsApplied", "commentPosted", "error"}, success |-> TRUE,
   classification |-> classification, labelsApplied |-> labelsApplied,
   commentPosted |-> commentPosted, error |-> <<>>]
Completed(classification, labelsApplied, commentPosted) ==
  [fields |-> {"success", "classification", "labelsApplied", "commentPosted"}, success |-> TRUE,
   classification |-> classification, labelsApplied |-> labelsApplied,
   commentPosted |-> commentPosted, error |-> <<>>]
\* reports every failure with the fallback text
FailedUnknown(error) ==
  [fields |-> {"success", "error"}, success |-> FALSE, classification |-> NoClassification,
   labelsApplied |-> <<>>, commentPosted |-> FALSE, error |-> <<"Unknown error">>]
\* lines 629-632: the failure result carries the message of the error that was caught
Failed(error) ==
  [fields |-> {"success", "error"}, success |-> FALSE, classification |-> NoClassification,
   labelsApplied |-> <<>>, commentPosted |-> FALSE, error |-> error.message]
\* hands every computed label to the tracker, present on the issue or not
NewLabelsUnfiltered(classification, existingLabels) ==
  <<classification.primaryLabel>> \o classification.additionalLabels
\* lines 564-574: the computed labels that the event's label list does not hold
NewLabels(classification, existingLabels) ==
  LET labelsToAdd == <<classification.primaryLabel>> \o classification.additionalLabels
      NotExisting(label) == label \notin SeqRange(existingLabels)
  IN SelectSeq(labelsToAdd, NotExisting)

(* -------------------------------- state -------------------------------- *)
VARIABLES
  config,         \* process-wide configuration, established at startup
  req,            \* the inbound request: signature header, raw body, parsed body, correlationId
  http,           \* where the request is in the Express pipeline
  sigResult,      \* what verifySignature did for this request
  response,       \* the HTTP response written for the request
  responses,      \* number of responses written for the request
  task,           \* the detached triage task: payload and correlationId it captured, and its position
  calls,          \* collaborator calls issued by the triage attempt
  sent,           \* the label list handed to addLabelsToIssue
  classification, \* the ClassificationResult of the attempt
  labelsApplied,  \* the orchestrator's labelsApplied local
  result,         \* the TriageResult returned by triageIssue
  log,            \* the logging sink
  thrown,         \* the last error a collaborator client threw to the orchestrator
  lastReply,      \* the last upstream answer a collaborator's fetch came back with, and for which call
  issueLabels,    \* the labels the tracker holds for the issue
  deliveries,     \* how many times the tracker has delivered the event
  removal,        \* one removeLabelsFromIssue call: its labels, its per-label requests, its promise
  health,         \* one TriageOrchestrator.healthCheck call: its two probes and its answer
  probe,          \* an error handed to isRetryableError and getHttpStatusCode, with their answers
  attempts        \* triageIssue invocations in flight on one TriageOrchestrator: the locals of each

vars == <<config, req, http, sigResult, response, responses, task, calls, sent,
          classification, labelsApplied, result, log, thrown, lastReply, issueLabels, deliveries,
          removal, health, probe, attempts>>
webVars == <<req, http, sigResult, response, responses>>
triageVars == <<calls, sent, classification, labelsApplied, result, thrown, lastReply, issueLabels>>
fixedVars == <<config, deliveries, probe, removal, health, attempts>>

NoProbeResult == [state |-> "idle", healthy |-> FALSE, reply |-> NoReply.reply]
NoHealth == [pc |-> "idle", classifier |-> NoProbeResult, github |-> NoProbeResult, overall |-> FALSE]
NoRemoval == [pc |-> "idle", labels |-> <<>>, items |-> <<>>, error |-> NoError]
NoProbe == [error |-> NoError, retryable |-> FALSE, status |-> 0]
NoRequest == [sig |-> Absent, raw |-> [doc |-> BaseDoc, pad |-> 0], body |-> BaseDoc, correlationId |-> 0]
NoTask == [pc |-> "none", payload |-> BaseDoc, correlationId |-> 0]
NoAttempts == <<>>

Init ==
  /\ config \in Configs
  /\ \E r \in Requests : req = [sig |-> r.sig, raw |-> r.raw, body |-> JSONparse(r.raw), correlationId |-> 0]
  /\ http = "received"
  /\ sigResult = "none"
  /\ response = NoResponse
  /\ responses = 0
  /\ task = NoTask
  /\ calls = [classify |-> 0, addLabels |-> 0, postComment |-> 0]
  /\ sent = <<>>
  /\ classification = NoClassification
  /\ labelsApplied = <<>>
  /\ result = NoResult
  /\ log = {}
  /\ thrown = NoError
  /\ lastReply = NoReply
  /\ issueLabels = SeqRange(req.body.labels)
  /\ deliveries = 1
  /\ probe = NoProbe
  /\ removal = NoRemoval
  /\ health = NoHealth
  /\ attempts = NoAttempts

(* ------------------- verifyWebhookMiddleware --------------------------- *)
\* line 120: a fresh id for each request the gateway receives
NewCorrelationId == deliveries
\* writes a response and writes again from the catch block
WrittenTwice(written) == written + 2
\* res.status(..).json(..): one more response is written for the request
Written(written) == written + 1
\* treats an exception of the comparison as a pass
CallsNextOnException(verdict) == verdict \in {"true", "RangeError"}
\* line 131: next() is reached only when verifySignature returned true
CallsNext(verdict) == verdict = "true"
verifyWebhookMiddleware ==
  /\ http = "received"
  /\ LET correlationId == NewCorrelationId
         signature == req.sig
         payload == JSONstringify(req.body)
         verdict == IF Falsy(signature) THEN "missing"
                    ELSE VerifySignature(payload, signature, config.secret)
     IN /\ req' = [req EXCEPT !.correlationId = correlationId]
        /\ sigResult' = IF Falsy(signature) THEN "none" ELSE verdict
        /\ CASE CallsNext(verdict) ->
                  /\ http' = "handler"
                  /\ log' = log \cup {LogEntry("debug", "Webhook signature verified successfully", correlationId)}
                  /\ UNCHANGED <<response, responses>>
             [] ~CallsNext(verdict) /\ verdict = "missing" ->
                  /\ http' = "responded"
                  /\ response' = Json(401, "Unauthorized", WebhookVerificationError(<<"Missing signature header">>).message,
                                      <<>>, "absent", 0)
                  /\ responses' = Written(responses)
                  /\ UNCHANGED log
             [] ~CallsNext(verdict) /\ verdict = "false" ->
                  /\ http' = "responded"
                  /\ response' = Json(401, "Unauthorized",
                                      WebhookVerificationError(<<"Webhook signature verification failed">>).message,
                                      <<>>, "absent", 0)
                  /\ responses' = Written(responses)
                  /\ log' = log \cup {LogEntry("warn", "Webhook signature verification failed", correlationId)}
             [] ~CallsNext(verdict) /\ verdict = "RangeError" ->
                  /\ http' = "responded"
                  /\ response' = Json(500, "Internal Server Error", <<"Failed to verify webhook">>, <<>>, "absent", 0)
                  /\ responses' = Written(responses)
                  /\ log' = log \cup {LogEntry("error", "Unexpected error during webhook verification", correlationId)}
  /\ UNCHANGED <<fixedVars, task>>
  /\ UNCHANGED triageVars

(* ----------------------------- handleWebhook --------------------------- *)
\* the response is left to be written once triage has finished
AcceptedResponseDeferred(correlationId) == NoResponse
\* lines 211-215: the response written before the task is scheduled
AcceptedResponse(correlationId) ==
  Json(200, "", <<"Webhook received and processing started">>, <<>>, "true", correlationId)
\* schedules nothing for an event that has been delivered before
ScheduledTaskOnce(payload, correlationId) ==
  IF deliveries = 1 THEN [pc |-> "queued", payload |-> payload, correlationId |-> correlationId] ELSE NoTask
\* lines 218-227: the callback handed to setImmediate, with the payload and correlationId it captures
ScheduledTask(payload, correlationId) ==
  [pc |-> "queued", payload |-> payload, correlationId |-> correlationId]
handleWebhook ==
  /\ http = "handler"
  /\ http' = "responded"
  /\ responses' = Written(responses)
  /\ LET correlationId == IF req.correlationId # 0 THEN req.correlationId ELSE NewCorrelationId
         validated == validatePayload(req.body)
         payload == validated.value
         received == LogEntry("info", "GitHub webhook received", correlationId)
     IN IF validated.threw THEN
          /\ response' = Json(validated.error.statusCode, validated.error.name, validated.error.message,
                              ZodIssues(req.body), "absent", correlationId)
          /\ log' = log \cup {LogEntry("error", "Webhook processing failed", correlationId)}
          /\ UNCHANGED <<req, task>>
        ELSE IF ~isTargetRepository(payload) THEN
          /\ response' = Json(200, "", <<"Webhook received but not for target repository">>, <<>>, "false", 0)
          /\ log' = log \cup {received, LogEntry("debug", "Webhook received for different repository, ignoring", correlationId)}
          /\ UNCHANGED <<req, task>>
        ELSE IF ~shouldTriggerTriage(payload) THEN
          /\ response' = Json(200, "", <<"Webhook received but action does not trigger triage">>, <<>>, "false", 0)
          /\ log' = log \cup {received, LogEntry("debug", "Webhook action does not trigger triage", correlationId)}
          /\ UNCHANGED <<req, task>>
        ELSE
          /\ response' = AcceptedResponse(correlationId)
          /\ task' = ScheduledTask(payload, correlationId)
          /\ log' = log \cup {received, LogEntry("info", "Webhook processing initiated", correlationId)}
          /\ req' = NoRequest
  /\ UNCHANGED <<fixedVars, sigResult>>
  /\ UNCHANGED triageVars

(* ------------------- the detached task and triageIssue ----------------- *)
\* returns the failure result without logging it
AbortSilently(error) ==
  /\ result' = Failed(error)
  /\ log' = log
  /\ task' = [task EXCEPT !.pc = "done"]
\* catches AppErrors only: any other error rejects triageIssue's promise and lands in the task's catch
AbortRethrows(error) ==
  IF IsAppError(error)
    THEN /\ result' = Failed(error)
         /\ log' = log \cup {LogEntry("error", "Issue triage failed", task.correlationId)}
         /\ task' = [task EXCEPT !.pc = "done"]
    ELSE /\ result' = result
         /\ log' = log \cup {LogEntry("error", "Background triage processing failed", task.correlationId)}
         /\ task' = [task EXCEPT !.pc = "raised"]
\* triageIssue's catch block: log the error, return the failure result
Abort(error) ==
  /\ result' = Failed(error)
  /\ log' = log \cup {LogEntry("error", "Issue triage failed", task.correlationId)}
  /\ task' = [task EXCEPT !.pc = "done"]
\* lines 603-622: build the result, log completion, return
Complete(cls, applied, commentPosted, extra) ==
  /\ result' = Completed(cls, applied, commentPosted)
  /\ log' = log \cup extra \cup {LogEntry("info", "Issue triage completed", task.correlationId),
                                 LogEntry("info", "Issue triage completed successfully", task.correlationId)}
  /\ task' = [task EXCEPT !.pc = "done"]
\* calls postCommentToIssue whatever the auto-comment setting is
StartCommentAlways(cls, applied) ==
  /\ calls' = [calls EXCEPT !.postComment = @ + 1]
  /\ task' = [task EXCEPT !.pc = "commenting"]
  /\ UNCHANGED <<result, log>>
\* Step 3: post the triage comment, or finish when auto-comment is off
StartComment(cls, applied) ==
  IF config.autoComment
    THEN /\ calls' = [calls EXCEPT !.postComment = @ + 1]
         /\ task' = [task EXCEPT !.pc = "commenting"]
         /\ UNCHANGED <<result, log>>
    ELSE /\ Complete(cls, applied, FALSE, {})
         /\ UNCHANGED calls

\* the task switches auto-comment off in the process-wide configuration before it calls triageIssue
RunTaskReconfiguring ==
  /\ task.pc = "queued"
  /\ task' = [task EXCEPT !.pc = "classifying"]
  /\ calls' = [calls EXCEPT !.classify = @ + 1]
  /\ config' = [config EXCEPT !.autoComment = FALSE]
  /\ log' = log \cup {LogEntry("info", "Starting issue triage", task.correlationId),
                      LogEntry("info", "Issue classification started", task.correlationId)}
  /\ UNCHANGED <<deliveries, probe, removal, health, attempts>>
  /\ UNCHANGED <<sent, classification, labelsApplied, result, thrown, lastReply, issueLabels>>
  /\ UNCHANGED webVars
\* the setImmediate callback runs: import, construct, call triageIssue up to the classifier's fetch
RunTask ==
  /\ task.pc = "queued"
  /\ task' = [task EXCEPT !.pc = "classifying"]
  /\ calls' = [calls EXCEPT !.classify = @ + 1]
  /\ log' = log \cup {LogEntry("info", "Starting issue triage", task.correlationId),
                      LogEntry("info", "Issue classification started", task.correlationId)}
  /\ UNCHANGED <<fixedVars, sent, classification, labelsApplied, result, thrown, lastReply, issueLabels>>
  /\ UNCHANGED webVars

\* issues the comment call together with the label call instead of awaiting the label call first
StartLabelingAndComment(newLabels) ==
  /\ sent' = newLabels
  /\ calls' = [calls EXCEPT !.addLabels = @ + 1, !.postComment = @ + 1]
  /\ task' = [task EXCEPT !.pc = "labeling"]
  /\ log' = log \cup {LogEntry("info", "Issue labeling started", task.correlationId)}
  /\ UNCHANGED result
\* Step 2 when there are labels to add: hand them to addLabelsToIssue and await it
StartLabeling(newLabels) ==
  /\ sent' = newLabels
  /\ calls' = [calls EXCEPT !.addLabels = @ + 1]
  /\ task' = [task EXCEPT !.pc = "labeling"]
  /\ log' = log \cup {LogEntry("info", "Issue labeling started", task.correlationId)}
  /\ UNCHANGED result

\* the classifier's fetch settles; triageIssue runs on to its next await or to its return
ClassifierResponds ==
  /\ task.pc = "classifying"
  /\ \E reply \in ClassifierReplies :
       LET outcome == classifyIssue(config.labels, config.threshold, reply)
           newLabels == NewLabels(outcome.value, task.payload.labels)
       IN /\ IF outcome.threw THEN
               /\ Abort(outcome.error)
               /\ UNCHANGED <<calls, sent, classification, labelsApplied>>
             ELSE
               /\ classification' = outcome.value
               /\ IF newLabels # <<>> THEN
                    /\ StartLabeling(newLabels)
                    /\ UNCHANGED labelsApplied
                  ELSE
                    /\ StartComment(outcome.value, <<>>)
                    /\ UNCHANGED <<sent, labelsApplied>>
          /\ thrown' = IF outcome.threw THEN outcome.error ELSE thrown
          /\ lastReply' = [by |-> "classify", reply |-> reply]
  /\ UNCHANGED <<fixedVars, issueLabels>>
  /\ UNCHANGED webVars

\* the addLabels fetch settles
LabelsRespond ==
  /\ task.pc = "labeling"
  /\ \E reply \in LabelReplies(task.payload.labels, sent) :
       LET outcome == addLabelsToIssue(sent, reply)
       IN /\ IF outcome.threw THEN
               /\ Abort(outcome.error)
               /\ UNCHANGED <<calls, labelsApplied>>
             ELSE
               /\ labelsApplied' = outcome.value
               /\ StartComment(classification, outcome.value)
          /\ thrown' = IF outcome.threw THEN outcome.error ELSE thrown
          /\ lastReply' = [by |-> "addLabels", reply |-> reply]
          /\ issueLabels' = IF reply.kind \in {"http", "late"} /\ reply.status \in 200..299
                              THEN issueLabels \cup SeqRange(sent) ELSE issueLabels
  /\ UNCHANGED <<fixedVars, sent, classification>>
  /\ UNCHANGED webVars

\* waits for another answer to the comment request when the failure is retryable
AfterCommentRetries(outcome) ==
  IF outcome.threw /\ isRetryableError(outcome.error)
    THEN UNCHANGED <<result, log, task>>
  ELSE IF outcome.threw
    THEN Complete(classification, labelsApplied, FALSE,
                  {LogEntry("warn", "Failed to post comment, continuing with triage", task.correlationId)})
    ELSE Complete(classification, labelsApplied, TRUE, {})
\* lets a comment failure reach the outer catch block
AfterCommentAborts(outcome) ==
  IF outcome.threw THEN Abort(outcome.error) ELSE Complete(classification, labelsApplied, TRUE, {})
\* lines 586-601: a comment failure is logged as a warning and the attempt goes on to its result
AfterComment(outcome) ==
  IF outcome.threw
    THEN Complete(classification, labelsApplied, FALSE,
                  {LogEntry("warn", "Failed to post comment, continuing with triage", task.correlationId)})
    ELSE Complete(classification, labelsApplied, TRUE, {})
\* the postComment fetch settles
CommentResponds ==
  /\ task.pc = "commenting"
  /\ \E reply \in CommentReplies :
       LET outcome == postCommentToIssue(config.autoComment, reply)
       IN /\ AfterComment(outcome)
          /\ thrown' = IF outcome.threw THEN outcome.error ELSE thrown
          /\ lastReply' = [by |-> "postComment", reply |-> reply]
  /\ UNCHANGED <<fixedVars, calls, sent, classification, labelsApplied, issueLabels>>
  /\ UNCHANGED webVars

\* The tracker delivers the same event again (same body, signed for it) after the first attempt ended.
\* The gateway keeps no record of deliveries, so the request starts the pipeline afresh; the log and
\* the labels on the issue are what the first attempt left.
MaxDeliveries == 2
Redeliver ==
  /\ task.pc = "done"
  /\ deliveries < MaxDeliveries
  /\ deliveries' = deliveries + 1
  /\ LET raw == JSONstringify(task.payload)
     IN req' = [sig |-> Header(Prefix \o ToHex(Hmac(config.secret, raw))), raw |-> raw,
                body |-> JSONparse(raw), correlationId |-> 0]
  /\ http' = "received"
  /\ sigResult' = "none"
  /\ response' = NoResponse
  /\ responses' = 0
  /\ task' = NoTask
  /\ calls' = [classify |-> 0, addLabels |-> 0, postComment |-> 0]
  /\ sent' = <<>>
  /\ classification' = NoClassification
  /\ labelsApplied' = <<>>
  /\ result' = NoResult
  /\ thrown' = NoError
  /\ lastReply' = NoReply
  /\ UNCHANGED <<config, probe, removal, health, log, issueLabels, attempts>>

(* --------------------------- triage_issue tool ------------------------- *)
\* hands triageIssue an event that lists the label 'bug'
MockPayloadLabelled == [action |-> "opened", state |-> "open", owner |-> TargetOwner, name |-> TargetName,
                        labels |-> <<"bug">>]
\* index.ts lines 56-80: the synthetic event, for the configured repository and with no labels
MockPayload == [action |-> "opened", state |-> "open", owner |-> TargetOwner, name |-> TargetName,
                labels |-> <<>>]
\* index.ts lines 84-96: the text the tool answers with
ToolText(r, correlationId) ==
  [success |-> r.success, classification |-> r.classification, labelsApplied |-> r.labelsApplied,
   commentPosted |-> r.commentPosted, correlationId |-> correlationId]
\* the tool is invoked: it builds the event and calls triageIssue, which runs up to the classifier's fetch
triage_issue ==
  /\ http = "tool"
  /\ task.pc = "none"
  /\ task' = [pc |-> "classifying", payload |-> MockPayload, correlationId |-> NewCorrelationId]
  /\ calls' = [calls EXCEPT !.classify = @ + 1]
  /\ log' = log \cup {LogEntry("info", "Starting issue triage", NewCorrelationId),
                      LogEntry("info", "Issue classification started", NewCorrelationId)}
  /\ UNCHANGED <<fixedVars, sent, classification, labelsApplied, result, thrown, lastReply, issueLabels>>
  /\ UNCHANGED webVars
\* triageIssue has returned: the tool answers
ToolReturns ==
  /\ http = "tool"
  /\ task.pc = "done"
  /\ http' = "returned"
  /\ response' = ToolText(result, task.correlationId)
  /\ responses' = responses + 1
  /\ UNCHANGED <<fixedVars, req, sigResult, task, log>>
  /\ UNCHANGED triageVars
\* no webhook request: an MCP client invokes the tool for an issue that may carry labels already
ToolInit ==
  /\ config \in Configs
  /\ req = NoRequest
  /\ http = "tool"
  /\ sigResult = "none"
  /\ response = NoResponse
  /\ responses = 0
  /\ task = NoTask
  /\ calls = [classify |-> 0, addLabels |-> 0, postComment |-> 0]
  /\ sent = <<>>
  /\ classification = NoClassification
  /\ labelsApplied = <<>>
  /\ result = NoResult
  /\ log = {}
  /\ thrown = NoError
  /\ lastReply = NoReply
  /\ issueLabels \in {{}, {"bug"}}
  /\ deliveries = 1
  /\ probe = NoProbe
  /\ removal = NoRemoval
  /\ health = NoHealth
  /\ attempts = NoAttempts
ToolNext ==
  \/ triage_issue
  \/ ClassifierResponds
  \/ LabelsRespond
  \/ CommentResponds
  \/ ToolReturns
ToolSpec == ToolInit /\ [][ToolNext]_vars

(* ------------------------ removeLabelsFromIssue ------------------------ *)
RemovalInputs == {<<>>, <<"bug">>, <<"bug", "documentation">>, <<"documentation", "wontfix", "bug">>}
RemoveReplies == FailureReplies \cup {Reply("http", 200, 1, 0, NoContent, <<>>)}
\* every error of a DELETE fails its item
RemovalItemStrict(outcome) == IF outcome.threw THEN "failed" ELSE "removed"
\* lines 250-275: what one label's DELETE comes to; a GitHubApiError with status 404 is swallowed
RemovalItem(outcome) ==
  IF ~outcome.threw THEN "removed"
  ELSE IF outcome.error.name = "GitHubApiError" /\ outcome.error.apiStatusCode = 404 THEN "absent"
  ELSE "failed"
\* lines 232-278: the call returns at once for an empty list, else it sends one DELETE per label
\* before awaiting any of them
removeLabelsFromIssue ==
  /\ removal.pc = "idle"
  /\ \E labels \in RemovalInputs :
       removal' = IF labels = <<>>
                    THEN [pc |-> "resolved", labels |-> labels, items |-> <<>>, error |-> NoError]
                    ELSE [pc |-> "running", labels |-> labels,
                          items |-> [i \in 1..Len(labels) |-> [state |-> "inflight", reply |-> NoReply.reply]],
                          error |-> NoError]
  /\ UNCHANGED <<config, deliveries, probe, health, log, task, attempts>>
  /\ UNCHANGED webVars
  /\ UNCHANGED triageVars
\* a request is dropped, unanswered, once the aggregate promise has rejected
InFlightUntilRejected(i) == removal.items[i].state = "inflight" /\ removal.pc # "rejected"
\* lines 247-277: each label's request has its own promise and AbortController; Promise.all cancels nothing
InFlight(i) == removal.items[i].state = "inflight"
\* one DELETE settles; Promise.all rejects with the first failure and resolves when every item succeeded
RemovalItemResponds ==
  /\ \E i \in 1..Len(removal.items) : \E reply \in RemoveReplies :
       LET outcome == GitHubMakeRequest(reply)
           state == RemovalItem(outcome)
           items == [removal.items EXCEPT ![i] = [state |-> state, reply |-> reply]]
       IN /\ InFlight(i)
          /\ removal' = [removal EXCEPT
                           !.items = items,
                           !.pc = IF removal.pc = "running" /\ state = "failed" THEN "rejected"
                                  ELSE IF removal.pc = "running"
                                          /\ \A j \in 1..Len(items) : items[j].state \in {"removed", "absent"}
                                    THEN "resolved"
                                  ELSE @,
                           !.error = IF removal.pc = "running" /\ state = "failed" THEN outcome.error ELSE @]
          /\ issueLabels' = IF outcome.threw THEN issueLabels ELSE issueLabels \ {removal.labels[i]}
  /\ UNCHANGED <<config, deliveries, probe, health, log, task, attempts>>
  /\ UNCHANGED webVars
  /\ UNCHANGED <<calls, sent, classification, labelsApplied, result, thrown, lastReply>>
\* a caller removes labels from an issue that carries some
RemovalInit ==
  /\ Init
  /\ config = [secret |-> 1, threshold |-> 75, autoComment |-> TRUE, labels |-> ConfigLabels]
  /\ req.raw.pad = 0
  /\ req.sig = Header(Prefix \o ToHex(Hmac(config.secret, req.raw)))
  /\ \E labels \in SeqRange(LabelsInputs) : req.body = [BaseDoc EXCEPT !.labels = labels]
RemovalNext == removeLabelsFromIssue \/ RemovalItemResponds
RemovalSpec == RemovalInit /\ [][RemovalNext]_vars
\* every DELETE comes back: with an answer, a transport error or its own 30 s abort
RemovalLiveSpec == RemovalSpec /\ WF_vars(RemovalItemResponds)

(* ------------------------------ healthCheck --------------------------- *)
RepositoryReplies == FailureReplies \cup {Reply("http", 200, 1, 0, NoContent, <<>>)}
\* part_002:362-380: healthy when the test classification comes back with a positive confidence
ClassifierHealthCheck(labels, threshold, reply) ==
  LET outcome == classifyIssue(labels, threshold, reply)
  IN IF outcome.threw THEN FALSE ELSE outcome.value.confidence > 0
\* part_001:447-455: healthy when the repository can be read
GitHubHealthCheck(reply) == ~GitHubMakeRequest(reply).threw
\* healthy as soon as one service is
OverallEither(classifierHealthy, githubHealthy) == classifierHealthy \/ githubHealthy
\* line 649
Overall(classifierHealthy, githubHealthy) == classifierHealthy /\ githubHealthy
\* lines 644-647 up to the await: both probes are started
healthCheck ==
  /\ health.pc = "idle"
  /\ health' = [health EXCEPT !.pc = "running", !.classifier.state = "pending", !.github.state = "pending"]
  /\ UNCHANGED <<config, deliveries, probe, removal, log, task, attempts>>
  /\ UNCHANGED webVars
  /\ UNCHANGED triageVars
\* the rest of healthCheck once both probes have settled
HealthSettled(h) ==
  IF h.classifier.state = "settled" /\ h.github.state = "settled"
    THEN [h EXCEPT !.pc = "done", !.overall = Overall(h.classifier.healthy, h.github.healthy)]
    ELSE h
ClassifierProbeResponds ==
  /\ health.classifier.state = "pending"
  /\ \E reply \in ClassifierReplies :
       health' = HealthSettled([health EXCEPT !.classifier =
                   [state |-> "settled", healthy |-> ClassifierHealthCheck(config.labels, config.threshold, reply), reply |-> reply]])
  /\ UNCHANGED <<config, deliveries, probe, removal, log, task, attempts>>
  /\ UNCHANGED webVars
  /\ UNCHANGED triageVars
GitHubProbeResponds ==
  /\ health.github.state = "pending"
  /\ \E reply \in RepositoryReplies :
       health' = HealthSettled([health EXCEPT !.github =
                   [state |-> "settled", healthy |-> GitHubHealthCheck(reply), reply |-> reply]])
  /\ UNCHANGED <<config, deliveries, probe, removal, log, task, attempts>>
  /\ UNCHANGED webVars
  /\ UNCHANGED triageVars
HealthInit ==
  /\ Init
  /\ config.secret = 1 /\ config.autoComment
  /\ req = [NoRequest EXCEPT !.sig = Header(Prefix \o ToHex(Hmac(config.secret, NoRequest.raw)))]
HealthNext == healthCheck \/ ClassifierProbeResponds \/ GitHubProbeResponds
HealthSpec == HealthInit /\ [][HealthNext]_vars

\* Errors as the components construct them: every class of errors.ts over a few messages and
\* parameters, and plain Errors.
Messages == {<<"failed">>, <<"fetch failed">>, <<"HTTP ", "404">>, <<>>}
ApiStatusInputs == {0, 400, 404, 500}
HintInputs == {0, 60}
ErrorInstances ==
  {GitHubApiError(m, st) : m \in Messages, st \in ApiStatusInputs}
  \cup {OpenAIApiError(m, st) : m \in Messages, st \in ApiStatusInputs}
  \cup {GitHubRateLimitError(m, h) : m \in Messages, h \in HintInputs}
  \cup {OpenAIRateLimitError(m, h) : m \in Messages, h \in HintInputs}
  \cup {LowConfidenceError(c, t) : c \in {0, 40, 50, 74, 90}, t \in Thresholds}
  \cup {TimeoutError(op, ms) : op \in {"GitHub API request", "OpenAI API request"}, ms \in {30000}}
  \cup {CircuitBreakerError(sv) : sv \in {"github", "openai"}}
  \cup {PlainError(n, m) : n \in {"TypeError", "RangeError", "SyntaxError"}, m \in Messages}
  \cup UNION {{GitHubAuthError(m), OpenAIAuthError(m), ClassificationError(m), WebhookVerificationError(m),
               WebhookPayloadError(m), ConfigurationError(m), NetworkError(m), ValidationError(m)} :
              m \in Messages}
\* a caller hands an error to the two helpers
ProbeError ==
  /\ \E error \in ErrorInstances :
       probe' = [error |-> error, retryable |-> isRetryableError(error), status |-> getHttpStatusCode(error)]
  /\ UNCHANGED <<config, deliveries, removal, health, log, attempts>>
  /\ UNCHANGED webVars
  /\ UNCHANGED <<task, calls, sent, classification, labelsApplied, result, thrown, lastReply, issueLabels>>
TaxonomyInit ==
  /\ Init
  /\ config = [secret |-> 1, threshold |-> 75, autoComment |-> TRUE, labels |-> ConfigLabels]
  /\ req = [NoRequest EXCEPT !.sig = Header(Prefix \o ToHex(Hmac(config.secret, NoRequest.raw)))]
TaxonomySpec == TaxonomyInit /\ [][ProbeError]_vars

Next ==
  \/ verifyWebhookMiddleware
  \/ handleWebhook
  \/ RunTask
  \/ ClassifierResponds
  \/ LabelsRespond
  \/ CommentResponds
Spec == Init /\ [][Next]_vars
\* One authentic triggering event for the target repository, delivered up to MaxDeliveries times
RedeliveryInit ==
  /\ Init
  /\ config.secret = 1
  /\ req.body.action = "opened"
  /\ req.raw.pad = 0
  /\ req.sig = Header(Prefix \o ToHex(Hmac(config.secret, req.raw)))
  /\ validatePayload(req.body).threw = FALSE
  /\ isTargetRepository(req.body) /\ shouldTriggerTriage(req.body)
RedeliveryNext == Next \/ Redeliver
RedeliverySpec == RedeliveryInit /\ [][RedeliveryNext]_vars
\* The event loop runs every queued callback and every fetch settles (reply, transport error or timer abort)
LiveSpec == Spec /\ WF_vars(RunTask) /\ WF_vars(ClassifierResponds) /\ WF_vars(LabelsRespond) /\ WF_vars(CommentResponds)

(* ------------------- triage under every label list TRIAGE_LABELS can give ------------------ *)
LabelListConfigs == [secret : {1}, threshold : Thresholds, autoComment : BOOLEAN, labels : LabelLists]
LabelListInit ==
  /\ config \in LabelListConfigs
  /\ req = NoRequest
  /\ http = "tool"
  /\ sigResult = "none"
  /\ response = NoResponse
  /\ responses = 0
  /\ task = NoTask
  /\ calls = [classify |-> 0, addLabels |-> 0, postComment |-> 0]
  /\ sent = <<>>
  /\ classification = NoClassification
  /\ labelsApplied = <<>>
  /\ result = NoResult
  /\ log = {}
  /\ thrown = NoError
  /\ lastReply = NoReply
  /\ issueLabels = {}
  /\ deliveries = 1
  /\ probe = NoProbe
  /\ removal = NoRemoval
  /\ health = NoHealth
  /\ attempts = NoAttempts
LabelListSpec == LabelListInit /\ [][ToolNext]_vars

(* ------------- every operation of the service, one per behaviour ----------- *)
\* http says which operation the process is asked for: a webhook delivery ("received"), a
\* removeLabelsFromIssue call ("labels") or a healthCheck call ("health")
ServiceInit ==
  /\ http \in {"received", "labels", "health"}
  /\ config \in Configs
  /\ \E r \in Requests : req = [sig |-> r.sig, raw |-> r.raw, body |-> JSONparse(r.raw), correlationId |-> 0]
  /\ http # "received" =>
       /\ config.secret = 1
       /\ req.raw.pad = 0
       /\ req.sig = Header(Prefix \o ToHex(Hmac(config.secret, req.raw)))
       /\ \E labels \in SeqRange(LabelsInputs) : req.body = [BaseDoc EXCEPT !.labels = labels]
  /\ sigResult = "none"
  /\ response = NoResponse
  /\ responses = 0
  /\ task = NoTask
  /\ calls = [classify |-> 0, addLabels |-> 0, postComment |-> 0]
  /\ sent = <<>>
  /\ classification = NoClassification
  /\ labelsApplied = <<>>
  /\ result = NoResult
  /\ log = {}
  /\ thrown = NoError
  /\ lastReply = NoReply
  /\ issueLabels = SeqRange(req.body.labels)
  /\ deliveries = 1
  /\ probe = NoProbe
  /\ removal = NoRemoval
  /\ health = NoHealth
  /\ attempts = NoAttempts
ServiceNext ==
  \/ http \notin {"labels", "health"} /\ Next
  \/ http = "labels" /\ RemovalNext
  \/ http = "health" /\ HealthNext
ServiceSpec == ServiceInit /\ [][ServiceNext]_vars

(* ------- concurrent triageIssue invocations on one TriageOrchestrator ------ *)
NumAttempts == 2
Attempts == 1..NumAttempts
AttemptLabelsInputs == {<<>>, <<"bug">>}
AttemptContents ==
  {[json |-> TRUE, choices |-> 1, primaryLabel |-> "bug", confidence |-> 90, additionalLabels |-> <<>>],
   [json |-> TRUE, choices |-> 1, primaryLabel |-> "documentation", confidence |-> 90, additionalLabels |-> <<"bug">>],
   [json |-> TRUE, choices |-> 1, primaryLabel |-> "bug", confidence |-> 40, additionalLabels |-> <<>>]}
AttemptClassifierReplies ==
  {Reply("abort", 0, 1, 0, NoContent, <<>>)} \cup {Reply("http", 200, 1, 0, c, <<>>) : c \in AttemptContents}
AttemptLabelReplies(labels) ==
  {Reply("http", 200, 1, 0, NoContent, labels), Reply("http", 500, 1, 0, NoContent, <<>>)}
AttemptCommentReplies ==
  {Reply("http", 201, 1, 0, NoContent, <<>>), Reply("http", 500, 1, 0, NoContent, <<>>)}
\* a collaborator call as the collaborator sees it
Call(op, labels) == [op |-> op, labels |-> labels]
\* one invocation before it starts: the event it was given (the issue's label list) and its correlationId
NewAttempt(labels, correlationId) ==
  [pc |-> "idle", labels |-> labels, correlationId |-> correlationId, calls |-> <<>>, replies |-> <<>>,
   classification |-> NoClassification, sent |-> <<>>, labelsApplied |-> <<>>, result |-> NoResult]
\* keeps the classification in one field of the orchestrator, which every invocation reads
AttemptLocalsShared(i) ==
  LET classified == {j \in DOMAIN attempts : attempts[j].classification # NoClassification}
      latest == CHOOSE j \in classified : \A k \in classified : j <= k
  IN IF classified = {} THEN attempts[i]
     ELSE [attempts[i] EXCEPT !.classification = attempts[latest].classification]
\* the locals of an invocation (classification, newLabels, labelsApplied) live in its own frame
AttemptLocals(i) == attempts[i]
\* what an invocation logs when it reaches a new position
AttemptLog(a) ==
  CASE a.pc = "labeling" -> {LogEntry("info", "Issue labeling started", a.correlationId)}
    [] a.pc = "done" /\ a.result.success ->
         {LogEntry("info", "Issue triage completed", a.correlationId),
          LogEntry("info", "Issue triage completed successfully", a.correlationId)}
    [] a.pc = "done" /\ ~a.result.success -> {LogEntry("error", "Issue triage failed", a.correlationId)}
    [] OTHER -> {}
\* Step 3 of an invocation: issue the comment call, or finish when auto-comment is off
AttemptComment(a, cls, applied) ==
  IF config.autoComment
    THEN [a EXCEPT !.pc = "commenting", !.calls = Append(@, Call("postComment", <<>>))]
    ELSE [a EXCEPT !.pc = "done", !.result = Completed(cls, applied, FALSE)]
\* triageIssue is called on the shared orchestrator and runs up to the classifier's fetch
triageIssue(i) ==
  /\ attempts[i].pc = "idle"
  /\ attempts' = [attempts EXCEPT ![i].pc = "classifying", ![i].calls = <<Call("classify", <<>>)>>]
  /\ log' = log \cup {LogEntry("info", "Starting issue triage", attempts[i].correlationId),
                      LogEntry("info", "Issue classification started", attempts[i].correlationId)}
  /\ UNCHANGED <<config, deliveries, probe, removal, health, task>>
  /\ UNCHANGED <<webVars, triageVars>>
\* the classifier answers invocation i
AttemptClassifierResponds(i) ==
  /\ attempts[i].pc = "classifying"
  /\ \E reply \in AttemptClassifierReplies :
       LET a == [attempts[i] EXCEPT !.replies = Append(@, reply)]
           outcome == classifyIssue(config.labels, config.threshold, reply)
           newLabels == NewLabels(outcome.value, a.labels)
           after == IF outcome.threw THEN [a EXCEPT !.pc = "done", !.result = Failed(outcome.error)]
                    ELSE IF newLabels # <<>>
                      THEN [a EXCEPT !.classification = outcome.value, !.sent = newLabels, !.pc = "labeling",
                                     !.calls = Append(@, Call("addLabels", newLabels))]
                    ELSE AttemptComment([a EXCEPT !.classification = outcome.value], outcome.value, <<>>)
       IN /\ attempts' = [attempts EXCEPT ![i] = after]
          /\ log' = log \cup AttemptLog(after)
  /\ UNCHANGED <<config, deliveries, probe, removal, health, task>>
  /\ UNCHANGED <<webVars, triageVars>>
\* the tracker answers the addLabels call of invocation i
AttemptLabelsRespond(i) ==
  /\ attempts[i].pc = "labeling"
  /\ \E reply \in AttemptLabelReplies(AttemptLocals(i).sent) :
       LET a == [attempts[i] EXCEPT !.replies = Append(@, reply)]
           outcome == addLabelsToIssue(AttemptLocals(i).sent, reply)
           after == IF outcome.threw THEN [a EXCEPT !.pc = "done", !.result = Failed(outcome.error)]
                    ELSE AttemptComment([a EXCEPT !.labelsApplied = outcome.value],
                                        AttemptLocals(i).classification, outcome.value)
       IN /\ attempts' = [attempts EXCEPT ![i] = after]
          /\ log' = log \cup AttemptLog(after)
  /\ UNCHANGED <<config, deliveries, probe, removal, health, task>>
  /\ UNCHANGED <<webVars, triageVars>>
\* the tracker answers the postComment call of invocation i
AttemptCommentResponds(i) ==
  /\ attempts[i].pc = "commenting"
  /\ \E reply \in AttemptCommentReplies :
       LET a == [attempts[i] EXCEPT !.replies = Append(@, reply)]
           outcome == postCommentToIssue(config.autoComment, reply)
           after == [a EXCEPT !.pc = "done",
                              !.result = Completed(AttemptLocals(i).classification,
                                                   AttemptLocals(i).labelsApplied, ~outcome.threw)]
       IN /\ attempts' = [attempts EXCEPT ![i] = after]
          /\ log' = log \cup AttemptLog(after)
                        \cup (IF outcome.threw
                                THEN {LogEntry("warn", "Failed to post comment, continuing with triage", a.correlationId)}
                                ELSE {})
  /\ UNCHANGED <<config, deliveries, probe, removal, health, task>>
  /\ UNCHANGED <<webVars, triageVars>>
\* the invocations are made for events of the target repository, each with its own correlationId
ConcurrentInit ==
  /\ config \in Configs /\ config.secret = 1
  /\ req = NoRequest
  /\ http = "tool"
  /\ sigResult = "none"
  /\ response = NoResponse
  /\ responses = 0
  /\ task = NoTask
  /\ calls = [classify |-> 0, addLabels |-> 0, postComment |-> 0]
  /\ sent = <<>>
  /\ classification = NoClassification
  /\ labelsApplied = <<>>
  /\ result = NoResult
  /\ log = {}
  /\ thrown = NoError
  /\ lastReply = NoReply
  /\ issueLabels = {}
  /\ deliveries = 1
  /\ probe = NoProbe
  /\ removal = NoRemoval
  /\ health = NoHealth
  /\ \E events \in [Attempts -> AttemptLabelsInputs] :
       attempts = [i \in Attempts |-> NewAttempt(events[i], i)]
ConcurrentNext ==
  \/ \E i \in DOMAIN attempts : triageIssue(i)
  \/ \E i \in DOMAIN attempts : AttemptClassifierResponds(i)
  \/ \E i \in DOMAIN attempts : AttemptLabelsRespond(i)
  \/ \E i \in DOMAIN attempts : AttemptCommentResponds(i)
ConcurrentSpec == ConcurrentInit /\ [][ConcurrentNext]_vars

(* ======================================================================= *)
(*                               properties                                *)
(* ======================================================================= *)
\* the request has been through the middleware and is still held by the pipeline
Verified == req.correlationId # 0
\* the text verifySignature is given, and the header that signs text t with the configured secret
Payload == JSONstringify(req.body)
SignedHeader(t) == Header(Prefix \o ToHex(Hmac(config.secret, t)))
OneDigitChanged(sig, t) ==
  LET d == ToHex(Hmac(config.secret, t))
  IN \E i \in 1..Len(d) : \E c \in SeqRange(HexDigits) :
       c # d[i] /\ sig = Header(Prefix \o [d EXCEPT ![i] = c])
\* the event the gateway has validated
HandlerRan == \E e \in log : e.message \in {"GitHub webhook received", "Webhook processing failed"}
Event == IF task.pc # "none" THEN task.payload ELSE req.body
LowConfidence == result.error # <<>> /\ result.error[1] = "Classification confidence "
OutcomeLogged ==
  \E e \in log : /\ e.correlationId = task.correlationId
                 /\ e.message \in {"Issue triage completed", "Issue triage failed",
                                   "Background triage processing failed"}

\* C1: verifySignature(B, "sha256=" + hex(HMAC(S, B))) with secret S returns true, and returns
\* false for every header that differs from that one in exactly one hex digit (0-9a-f) of the digest.
C1_SignatureRoundTrip ==
  Verified =>
    /\ (req.sig = SignedHeader(Payload) => sigResult = "true")
    /\ (OneDigitChanged(req.sig, Payload) => sigResult = "false")
C1_Witness == Verified /\ OneDigitChanged(req.sig, Payload) /\ sigResult = "false"

\* C2: a request whose signature header is absent, lacks the prefix "sha256=" or carries a digest
\* other than the expected one (also one of another length or not valid hex) is answered with
\* HTTP 401 {error: "Unauthorized"}; it is never passed on, and never answered with 200 or 500.
\* (The formula leaves the message text of the body aside.)
C2_BadSignature ==
  \/ ~req.sig.present
  \/ ~StartsWith(req.sig.value, Prefix)
  \/ Slice(req.sig.value, 7) # ToHex(Hmac(config.secret, Payload))
C2_InvalidSignatureIs401 ==
  (Verified /\ C2_BadSignature) =>
    /\ http = "responded"
    /\ response.status = 401 /\ response.error = "Unauthorized"

\* C3: a request whose raw bytes were signed with the shared secret is accepted by the middleware,
\* whatever its parse-then-reserialise form, and a request is accepted only on a signature over
\* the raw bytes received.
C3_RawBodyIsSigned ==
  Verified =>
    /\ (req.sig = SignedHeader(req.raw) => sigResult = "true" /\ response.status # 401)
    /\ (sigResult = "true" => BufferFromHex(Slice(req.sig.value, 7)) = Hmac(config.secret, req.raw))

\* C4: handleWebhook, and with it payload validation, the background task and every collaborator
\* call, runs only for a request whose signature verification returned true.
C4_HandlerOnlyAfterVerification ==
  (http = "handler" \/ HandlerRan \/ task.pc # "none" \/ calls.classify > 0) => sigResult = "true"
C4_Witness == HandlerRan /\ sigResult = "true" /\ calls.classify > 0

\* C5: a valid event for a repository other than the configured target is answered with
\* 200, processed = false; no triage task is scheduled and no classification call is made.
C5_NonTargetIgnored ==
  (HandlerRan /\ ZodIssues(Event) = <<>> /\ (Event.owner # TargetOwner \/ Event.name # TargetName)) =>
    /\ response.status = 200 /\ response.processed = "false"
    /\ task.pc = "none" /\ calls.classify = 0
C5_Witness ==
  /\ HandlerRan /\ ZodIssues(Event) = <<>> /\ Event.owner = TargetOwner /\ Event.name # TargetName
  /\ Event.action = "opened" /\ Event.state = "open" /\ response.processed = "false"

\* C6: a valid target-repository event whose action is not opened/edited or whose issue is closed
\* is answered with 200, processed = false, and no classification call is made.
C6_NonTriggeringIgnored ==
  (/\ HandlerRan /\ ZodIssues(Event) = <<>> /\ Event.owner = TargetOwner /\ Event.name = TargetName
   /\ (Event.action \notin {"opened", "edited"} \/ Event.state = "closed")) =>
    /\ response.status = 200 /\ response.processed = "false"
    /\ task.pc = "none" /\ calls.classify = 0
C6_Witness ==
  /\ HandlerRan /\ Event.owner = TargetOwner /\ Event.name = TargetName
  /\ Event.action = "edited" /\ Event.state = "closed" /\ response.processed = "false"

\* C7: every authentic (signed over its raw bytes with the shared secret), schema-valid,
\* target-repository event with action opened/edited and an open issue is answered with
\* 200 {processed: true, correlationId}.
C7_AuthenticTriggerAccepted ==
  (/\ Verified /\ http = "responded" /\ req.sig = SignedHeader(req.raw)
   /\ ZodIssues(req.body) = <<>> /\ isTargetRepository(req.body) /\ shouldTriggerTriage(req.body)) =>
    /\ response.status = 200 /\ response.processed = "true" /\ response.correlationId # 0

\* C8: the 200 {processed: true} response is written before the triage attempt makes its first
\* collaborator call, and it stays that one response whatever the attempt does afterwards.
C8_ResponseBeforeAndIndependentOfTriage ==
  (task.pc \notin {"none", "queued"} \/ calls.classify + calls.addLabels + calls.postComment > 0) =>
    /\ response = Json(200, "", <<"Webhook received and processing started">>, <<>>, "true", task.correlationId)
    /\ responses = 1
C8_Witness == task.pc = "done" /\ ~result.success /\ response.processed = "true"

\* C9: every background triage attempt eventually delivers its outcome, completion or failure,
\* to the logging sink under the attempt's correlation id.
C9_OutcomeReachesLog ==
  /\ (task.pc = "queued") ~> OutcomeLogged
  /\ [](task.pc = "done" => OutcomeLogged)
C9_Witness ==
  /\ task.pc = "done" /\ ~result.success
  /\ LogEntry("error", "Issue triage failed", task.correlationId) \in log

\* C10: a classification below the threshold makes no addLabels and no postComment call and
\* returns success = false, labelsApplied = [], commentPosted = false.
C10_LowConfidenceResult ==
  (task.pc = "done" /\ LowConfidence) =>
    /\ calls.addLabels = 0 /\ calls.postComment = 0
    /\ result.success = FALSE
    /\ "labelsApplied" \in result.fields /\ result.labelsApplied = <<>>
    /\ "commentPosted" \in result.fields /\ result.commentPosted = FALSE

\* what a caller can inspect of a TriageResult besides the free-text message
Shape(r) == [fields |-> r.fields, success |-> r.success, classification |-> r.classification,
             labelsApplied |-> r.labelsApplied, commentPosted |-> r.commentPosted]

\* C11: the result of a low-confidence attempt differs from the result of every genuine classifier
\* failure in its shape (the fields present and their values other than the error message).
C11_LowConfidenceDistinctShape ==
  (task.pc = "done" /\ thrown.name = "LowConfidenceError") =>
    \A reply \in ClassifierReplies :
      LET outcome == classifyIssue(config.labels, config.threshold, reply)
      IN (outcome.threw /\ outcome.error.name # "LowConfidenceError") =>
           Shape(Failed(outcome.error)) # Shape(result)

\* the labels the classification asks for, and the case where the event already lists all of them
Classified == classification # NoClassification
Computed == {classification.primaryLabel} \cup SeqRange(classification.additionalLabels)
AllExisting == Classified /\ Computed \subseteq SeqRange(task.payload.labels)

\* C12: when every computed label is already among the event's labels, the attempt makes no
\* addLabels call, keeps labelsApplied empty, and still goes on to the comment step and to success.
C12_NothingToAdd ==
  AllExisting =>
    /\ calls.addLabels = 0 /\ sent = <<>> /\ labelsApplied = <<>>
    /\ task.pc \in {"commenting", "done"}
    /\ config.autoComment => calls.postComment = 1
    /\ task.pc = "done" => (result.success /\ result.labelsApplied = <<>>)
C12_Witness ==
  AllExisting /\ task.pc = "done" /\ result.success /\ calls.postComment = 1 /\ result.labelsApplied = <<>>

\* C13: no attempt sends addLabels a label the issue carries at that time; in particular a second
\* attempt for a redelivered event, whose computed labels the first attempt added, sends none.
C13_IdempotentLabeling ==
  task.pc = "labeling" => SeqRange(sent) \cap issueLabels = {}

\* C14: in every successful result labelsApplied holds only computed labels and none of the labels
\* the event listed when labeling ran, whatever list the tracker's addLabels reply carries.
C14_AppliedAreNewAndComputed ==
  (task.pc = "done" /\ result.success) =>
    /\ SeqRange(result.labelsApplied) \subseteq Computed
    /\ SeqRange(result.labelsApplied) \cap SeqRange(task.payload.labels) = {}

\* the postComment call was made and threw (an earlier throw ends the attempt before that call)
CommentFailed == task.pc = "done" /\ calls.postComment = 1 /\ thrown # NoError

\* C15: when classification and labeling succeeded and postComment fails with any error, the result
\* is a success with commentPosted = false and with the classification and labelsApplied that the
\* earlier steps produced.
C15_CommentFailureIsNotFatal ==
  CommentFailed =>
    /\ result.fields = {"success", "classification", "labelsApplied", "commentPosted"}
    /\ result.success /\ ~result.commentPosted
    /\ Classified /\ result.classification = classification
    /\ result.labelsApplied = labelsApplied
C15_Witness ==
  CommentFailed /\ result.success /\ ~result.commentPosted /\ result.labelsApplied # <<>>
    /\ thrown.name = "GitHubAuthError"

\* C16: triageIssue never raises: whatever the classifier or the tracker client throws, an AppError
\* or not, every attempt that started ends by returning a TriageResult.
C16_NeverRaises ==
  /\ [](task.pc # "raised")
  /\ [](task.pc = "done" =>
          result.fields \in {{"success", "error"}, {"success", "classification", "labelsApplied", "commentPosted"}})
  /\ [](task.pc \in {"labeling", "commenting"} => thrown = NoError)
  /\ (task.pc = "classifying") ~> (task.pc = "done")
C16_Witness ==
  /\ task.pc = "done" /\ thrown.name = "TypeError" /\ ~IsAppError(thrown)
  /\ result.fields = {"success", "error"} /\ ~result.success /\ result.error = thrown.message

\* C17: the collaborator calls are sequential, in the order classify, addLabels, postComment:
\* addLabels is issued only after classify returned a classification, and postComment only after
\* the labeling step is over (addLabels returned, or was skipped); no two calls are in flight at once.
C17_CallOrder ==
  /\ calls.classify <= 1 /\ calls.addLabels <= 1 /\ calls.postComment <= 1
  /\ task.pc = "classifying" => calls = [classify |-> 1, addLabels |-> 0, postComment |-> 0]
  /\ task.pc = "labeling" => calls = [classify |-> 1, addLabels |-> 1, postComment |-> 0]
  /\ calls.addLabels > 0 => (calls.classify = 1 /\ Classified /\ task.pc \in {"labeling", "commenting", "done"})
  /\ calls.postComment > 0 => (calls.classify = 1 /\ Classified /\ task.pc \in {"commenting", "done"})
C17_Witness ==
  /\ task.pc = "done" /\ result.success /\ result.commentPosted
  /\ calls = [classify |-> 1, addLabels |-> 1, postComment |-> 1]

\* C18: when classify or addLabels throws, the attempt ends at once with a result of exactly
\* {success: false, error: the thrown error's message}, and no collaborator call is made afterwards
\* (in particular no postComment after a failed addLabels).
C18_FailureIsFinal ==
  /\ [][(task.pc \in {"classifying", "labeling"} /\ thrown' # NoError) =>
          /\ task'.pc = "done"
          /\ result'.fields = {"success", "error"} /\ ~result'.success
          /\ result'.error = thrown'.message
          /\ calls' = calls]_vars
  /\ [][(task.pc = "done" /\ ~result.success) => (calls' = calls /\ result' = result)]_vars
  /\ [](task.pc = "done" /\ ~result.success => calls.postComment = 0)
C18_Witness ==
  /\ task.pc = "done" /\ ~result.success /\ result.error = thrown.message
  /\ Classified /\ config.autoComment
  /\ calls = [classify |-> 1, addLabels |-> 1, postComment |-> 0]

\* the taxonomy kind an error class stands for; the two ...ApiError classes are the 502 transport kind
Kind(error) ==
  CASE error.name = "WebhookVerificationError" -> "VerificationError"
    [] error.name = "WebhookPayloadError" -> "PayloadError"
    [] error.name = "ClassificationError" -> "ClassificationError"
    [] error.name = "LowConfidenceError" -> "LowConfidence"
    [] error.name \in {"GitHubRateLimitError", "OpenAIRateLimitError"} -> "RateLimit"
    [] error.name \in {"GitHubAuthError", "OpenAIAuthError"} -> "AuthError"
    [] error.name = "TimeoutError" -> "Timeout"
    [] error.name \in {"NetworkError", "GitHubApiError", "OpenAIApiError"} -> "NetworkError"
    [] error.name = "ValidationError" -> "ValidationError"
    [] OTHER -> "none"
TaxonomyKinds == {"VerificationError", "PayloadError", "ClassificationError", "LowConfidence", "RateLimit",
                  "AuthError", "Timeout", "NetworkError", "ValidationError"}
TableStatus(kind) ==
  CASE kind = "VerificationError" -> 401 [] kind = "PayloadError" -> 400
    [] kind = "ClassificationError" -> 500 [] kind = "LowConfidence" -> 200
    [] kind = "RateLimit" -> 429 [] kind = "AuthError" -> 401
    [] kind = "Timeout" -> 504 [] kind = "NetworkError" -> 502
    [] kind = "ValidationError" -> 400
TableRetryable(kind) == kind \in {"ClassificationError", "RateLimit", "Timeout", "NetworkError"}

\* C19: an error of each of the nine kinds carries the status and the retryable flag of the taxonomy
\* table, and isRetryableError and getHttpStatusCode return those values for it.
C19_TaxonomyTable ==
  (probe # NoProbe /\ Kind(probe.error) \in TaxonomyKinds) =>
    LET kind == Kind(probe.error)
    IN /\ probe.error.statusCode = TableStatus(kind)
       /\ probe.error.retryable = TableRetryable(kind)
       /\ probe.status = TableStatus(kind)
       /\ probe.retryable = TableRetryable(kind)
C19_Witness ==
  /\ probe.error.name = "LowConfidenceError"
  /\ probe.status = 200 /\ ~probe.retryable

\* C20: every failure that the classifier client or the tracker client lets out to its caller is
\* an error of one of the nine taxonomy kinds; no untyped failure crosses a component boundary.
C20_TaxonomyClosed ==
  thrown # NoError => (IsAppError(thrown) /\ Kind(thrown) \in TaxonomyKinds)

\* the upstream answer to the last collaborator call, and the error that call threw for it
Answered(status) == lastReply.reply.kind = "http" /\ lastReply.reply.status = status

\* C21: when the upstream answers a collaborator call (classifier or tracker) with HTTP 401, the call
\* fails with an error of the AuthError kind, status 401, not retryable.
C21_CredentialRejected ==
  Answered(401) =>
    /\ thrown # NoError /\ Kind(thrown) = "AuthError"
    /\ getHttpStatusCode(thrown) = 401
    /\ ~isRetryableError(thrown)

\* the upstream reported quota exhaustion: 429 from the classifier, 403 with no requests remaining from the tracker
QuotaExhausted ==
  \/ lastReply.by = "classify" /\ Answered(429)
  \/ lastReply.by \in {"addLabels", "postComment"} /\ Answered(403) /\ lastReply.reply.remaining = 0

\* C22: on quota exhaustion the collaborator call fails with an error of the RateLimit kind, status 429,
\* retryable, that carries the reset or retry-after hint when the upstream sent one.
C22_QuotaExhausted ==
  QuotaExhausted =>
    /\ thrown # NoError /\ Kind(thrown) = "RateLimit"
    /\ getHttpStatusCode(thrown) = 429
    /\ isRetryableError(thrown)
    /\ lastReply.reply.hint # 0 => thrown.hint \in {lastReply.reply.hint, lastReply.reply.hint * 1000}

\* C23: a collaborator call whose response (headers and body) is not complete 30 seconds after the
\* request was sent fails with a TimeoutError (504, retryable).
C23_CallsAreBounded ==
  lastReply.reply.kind \in {"abort", "late"} =>
    /\ thrown.name = "TimeoutError"
    /\ getHttpStatusCode(thrown) = 504
    /\ isRetryableError(thrown)

\* what the upstream answered for item i of the removal, read off the reply itself
ItemSettled(i) == removal.items[i].state # "inflight"
ItemReply(i) == removal.items[i].reply
ItemDeleted(i) == ItemSettled(i) /\ ItemReply(i).kind = "http" /\ ItemReply(i).status \in 200..299
ItemNotFound(i) == ItemSettled(i) /\ ItemReply(i).kind = "http" /\ ItemReply(i).status = 404
ItemBroke(i) == ItemSettled(i) /\ ~ItemDeleted(i) /\ ~ItemNotFound(i)
Items == 1..Len(removal.items)

\* C24: removeLabelsFromIssue sends one DELETE per label, all before any of them settles; a 404 on an
\* item counts as success for it; every item still runs to its end and a deleted label is gone from
\* the issue; the call fails if and only if some item failed with an error other than a 404.
C24_RemovalFanOut ==
  /\ removal.pc # "idle" => Len(removal.items) = Len(removal.labels)
  /\ removal.pc = "rejected" <=> \E i \in Items : ItemBroke(i)
  /\ removal.pc = "resolved" <=> (removal.pc # "idle" /\ \A i \in Items : ItemDeleted(i) \/ ItemNotFound(i))
  /\ removal.pc = "rejected" => (removal.error # NoError /\ removal.error.apiStatusCode # 404)
  /\ \A i \in Items : ItemDeleted(i) => removal.labels[i] \notin issueLabels
C24_Witness ==
  /\ removal.pc = "resolved"
  /\ \E i, j \in Items : ItemNotFound(i) /\ ItemDeleted(j) /\ removal.labels[j] \notin issueLabels

\* the probes whose upstream call failed
ClassifierProbeThrew == classifyIssue(config.labels, config.threshold, health.classifier.reply).threw
GitHubProbeThrew == GitHubMakeRequest(health.github.reply).threw

\* C25: healthCheck starts both probes, waits for both whatever the other one did, answers
\* overall = classifierHealthy AND githubHealthy, counts a probe whose call failed as unhealthy,
\* and always ends with an answer.
C25_HealthCheck ==
  /\ health.pc \in {"idle", "running", "done"}
  /\ health.pc = "running" =>
       /\ health.classifier.state # "idle" /\ health.github.state # "idle"
       /\ "pending" \in {health.classifier.state, health.github.state}
  /\ health.pc = "done" =>
       /\ health.classifier.state = "settled" /\ health.github.state = "settled"
       /\ health.overall <=> (health.classifier.healthy /\ health.github.healthy)
       /\ ClassifierProbeThrew => ~health.classifier.healthy
       /\ GitHubProbeThrew => ~health.github.healthy
       /\ (ClassifierProbeThrew \/ GitHubProbeThrew) => ~health.overall
C25_Witness ==
  /\ health.pc = "done" /\ ClassifierProbeThrew /\ ~GitHubProbeThrew
  /\ health.github.healthy /\ ~health.classifier.healthy /\ ~health.overall

\* the schema paths at which a body lacks a field, or holds a value of the wrong type or outside the enum
OffendingPaths(body) ==
  {p \in {"action", "issue.state", "repository.name", "repository.owner.login"} :
     \/ p = "action" /\ body.action \notin SeqRange(ActionEnum)
     \/ p = "issue.state" /\ body.state \notin SeqRange(StateEnum)
     \/ p = "repository.name" /\ body.name = Missing
     \/ p = "repository.owner.login" /\ body.owner = Missing}
RejectedAsInvalid ==
  /\ response.status = 400 /\ response.error = "WebhookPayloadError"
  /\ response.correlationId = req.correlationId /\ response.correlationId # 0
  /\ OffendingPaths(req.body) \subseteq SeqRange(response.message)

\* C26: a request that reaches handleWebhook with a body that breaks the schema is answered with
\* 400 {error, message, correlationId}, the message naming every offending path; no triage task is
\* scheduled and no classification call is made for such a body.
C26_InvalidPayloadRejected ==
  OffendingPaths(req.body) # {} =>
    /\ task = NoTask /\ calls.classify = 0
    /\ (sigResult = "true" /\ http = "responded") => RejectedAsInvalid
C26_Witness ==
  /\ OffendingPaths(req.body) = {"action", "repository.name"}
  /\ sigResult = "true" /\ http = "responded" /\ RejectedAsInvalid

\* C27: every delivery of an authentic triggering event, a redelivery included, is accepted and gets
\* its own triage attempt, which starts from nothing (no call made, no classification, no result)
\* and makes its own classification call.
C27_NoDeduplication ==
  /\ (sigResult = "true" /\ http = "responded") =>
       (response = AcceptedResponse(deliveries) /\ task.pc # "none" /\ task.correlationId = deliveries)
  /\ task.pc = "queued" =>
       /\ calls = [classify |-> 0, addLabels |-> 0, postComment |-> 0]
       /\ classification = NoClassification /\ labelsApplied = <<>> /\ sent = <<>>
       /\ result = NoResult /\ thrown = NoError
  /\ task.pc \in {"classifying", "labeling", "commenting", "done"} => calls.classify = 1
C27_Witness ==
  /\ deliveries = 2 /\ task.pc = "done" /\ result.success
  /\ calls.classify = 1 /\ lastReply # NoReply

TrackerRateLimited(by) ==
  lastReply.by = by /\ Answered(403) /\ lastReply.reply.remaining = 0

ToolInvoked == http \in {"tool", "returned"} /\ task.pc # "none"

ClassifierContent == lastReply.reply.content
WellFormedAnswer ==
  /\ lastReply.by = "classify" /\ lastReply.reply.kind = "http" /\ lastReply.reply.status \in 200..299
  /\ ClassifierContent.json /\ ClassifierContent.choices = 1
  /\ ClassifierContent.confidence \in 0..100
NamesConfiguredLabel == ClassifierContent.primaryLabel \in SeqRange(config.labels)

Pending(callsMade) == [calls |-> callsMade, result |-> NoResult]
Returned(callsMade, r) == [calls |-> callsMade, result |-> r]
AloneComment(callsMade, cls, applied, replies, k) ==
  IF ~config.autoComment THEN Returned(callsMade, Completed(cls, applied, FALSE))
  ELSE IF Len(replies) < k THEN Pending(Append(callsMade, Call("postComment", <<>>)))
  ELSE Returned(Append(callsMade, Call("postComment", <<>>)),
                Completed(cls, applied, ~postCommentToIssue(TRUE, replies[k]).threw))
Alone(labels, replies) ==
  LET first == <<Call("classify", <<>>)>>
  IN IF replies = <<>> THEN Pending(first)
     ELSE LET c == classifyIssue(config.labels, config.threshold, replies[1])
              newLabels == NewLabels(c.value, labels)
              second == Append(first, Call("addLabels", newLabels))
          IN IF c.threw THEN Returned(first, Failed(c.error))
             ELSE IF newLabels = <<>> THEN AloneComment(first, c.value, <<>>, replies, 2)
             ELSE IF Len(replies) < 2 THEN Pending(second)
             ELSE LET l == addLabelsToIssue(newLabels, replies[2])
                  IN IF l.threw THEN Returned(second, Failed(l.error))
                     ELSE AloneComment(second, c.value, l.value, replies, 3)

\* C32: concurrent attempts on one orchestrator do not influence each other: at every point of every
\* interleaving, the calls an attempt has made and the result it has returned are those it makes and
\* returns alone, given its own event and the replies to its own calls.
C32_AttemptsAreIndependent ==
  \A i \in DOMAIN attempts :
    attempts[i].pc # "idle" =>
      /\ attempts[i].calls = Alone(attempts[i].labels, attempts[i].replies).calls
      /\ attempts[i].result = Alone(attempts[i].labels, attempts[i].replies).result
      /\ attempts[i].pc = "done" <=> attempts[i].result # NoResult
\* attempt 2 has returned its own classification and labels while attempt 1, classified differently,
\* is still waiting for the tracker
C32_Witness ==
  /\ DOMAIN attempts = Attempts
  /\ attempts[1].pc = "labeling" /\ attempts[2].pc = "done"
  /\ attempts[2].result.success /\ attempts[2].result.labelsApplied # <<>>
  /\ attempts[1].classification # attempts[2].result.classification
  /\ attempts[1].sent # attempts[2].sent
  /\ LogEntry("info", "Issue triage completed", 2) \in log

\* C33: no step of request handling (signature verification, payload gating, triage, adding and
\* removing labels, health checks) changes the configuration.
C33_ConfigIsReadOnly == [][config' = config]_vars
\* a delivery went through verification, gating and a whole triage with labels added and the comment
\* posted, and the configuration is one the process can start with
C33_Witness ==
  /\ config \in Configs
  /\ sigResult = "true" /\ http = "responded" /\ task.pc = "done" /\ result.success
  /\ calls.classify = 1 /\ calls.addLabels = 1 /\ calls.postComment = 1
  /\ result.classification.confidence = config.threshold

\* C34: a TriageResult returned by triageIssue carries a classification exactly when success is true
\* and an error exactly when success is false; the classification is the one the classifier gave and
\* the error is the message of what was caught.
C34_ResultShape ==
  task.pc = "done" =>
    /\ "success" \in result.fields
    /\ "classification" \in result.fields <=> result.success
    /\ "error" \in result.fields <=> ~result.success
    /\ result.success => (result.classification = classification /\ classification # NoClassification)
    /\ ~result.success => (result.error = thrown.message /\ result.classification = NoClassification)
\* the attempt was classified, the tracker then refused the labels: the result has an error and no classification
C34_Witness ==
  /\ task.pc = "done" /\ ~result.success
  /\ classification # NoClassification /\ calls.addLabels = 1
  /\ result.fields = {"success", "error"} /\ result.error # <<>>

\* C35: whatever the upstream answers and whatever label list is configured, a ClassificationResult
\* that classifyIssue returns names a configured label and has a confidence between 0 and 1; the same
\* holds for the classification in the TriageResult. The configured list always has a first entry:
\* TRIAGE_LABELS unset or empty gives the default list, any other text gives at least one entry.
C35_ClassificationInRange ==
  /\ Len(config.labels) >= 1
  /\ classification # NoClassification =>
       /\ classification.primaryLabel \in SeqRange(config.labels)
       /\ classification.confidence \in 0..100
  /\ (task.pc = "done" /\ result.success) =>
       /\ result.classification.primaryLabel \in SeqRange(config.labels)
       /\ result.classification.confidence \in 0..100
\* the upstream named a label outside a label list set through TRIAGE_LABELS, and a classification was returned
C35_Witness ==
  /\ config.labels # triageLabels(<<>>)
  /\ lastReply.by = "classify" /\ lastReply.reply.content.primaryLabel \notin SeqRange(config.labels)
  /\ classification # NoClassification /\ classification.primaryLabel = config.labels[1]

\* the labels the classification computes, primaryLabel first, as an ordered list
Desired == <<classification.primaryLabel>> \o classification.additionalLabels
FirstIndex(label) == CHOOSE i \in DOMAIN Desired : Desired[i] = label /\ \A j \in 1..(i - 1) : Desired[j] # label
\* C36: the list handed to addLabels is ({primaryLabel} \cup additionalLabels) minus the event's labels,
\* each name once, in the order of first appearance (primaryLabel first, then additionalLabels).
C36_SentIsOrderedDifference ==
  calls.addLabels > 0 =>
    /\ SeqRange(sent) = Computed \ SeqRange(task.payload.labels)
    /\ \A i, j \in DOMAIN sent : sent[i] = sent[j] => i = j
    /\ \A i, j \in DOMAIN sent : i < j => FirstIndex(sent[i]) <= FirstIndex(sent[j])

\* C37: with auto-comment off, an attempt never calls postComment; once it is classified and its labels
\* are added (or none had to be), it returns success = true with commentPosted = false.
C37_NoCommentWhenOff ==
  ~config.autoComment =>
    /\ calls.postComment = 0 /\ task.pc # "commenting"
    /\ (Classified /\ thrown = NoError /\ task.pc # "labeling") =>
         (task.pc = "done" /\ result.success /\ "commentPosted" \in result.fields /\ ~result.commentPosted)
    /\ (task.pc = "done" /\ result.success) => ~result.commentPosted
C37_Witness ==
  /\ ~config.autoComment /\ task.pc = "done" /\ result.success
  /\ calls.addLabels = 1 /\ result.labelsApplied # <<>> /\ calls.postComment = 0
  /\ ~result.commentPosted

\* the classifier's answer parses, carries a confidence in [0,1] and names a label that is not configured
NamesUnknownLabel ==
  WellFormedAnswer /\ ClassifierContent.primaryLabel # "" /\ ~NamesConfiguredLabel
\* C38: when the upstream's answer names a label outside the configured list, the classification is
\* the first configured label with confidence min(confidence, 0.5); so under a threshold above 0.5 the
\* attempt ends with LowConfidenceError, success = false, and no addLabels or postComment call.
C38_FallbackLabelIsLowConfidence ==
  NamesUnknownLabel =>
    /\ Classified => /\ classification.primaryLabel = config.labels[1]
                     /\ classification.confidence = Min(ClassifierContent.confidence, 50)
                     /\ classification.confidence >= config.threshold
    /\ ~Classified => /\ thrown.name = "LowConfidenceError"
                      /\ Min(ClassifierContent.confidence, 50) < config.threshold
    /\ config.threshold > 50 =>
         /\ thrown.name = "LowConfidenceError" /\ ~Classified
         /\ task.pc = "done" /\ ~result.success /\ result.error = thrown.message
         /\ calls.addLabels = 0 /\ calls.postComment = 0 /\ sent = <<>>
C38_Witness ==
  /\ NamesUnknownLabel /\ ClassifierContent.confidence = 90 /\ config.threshold = 75
  /\ config.labels # triageLabels(<<>>)
  /\ task.pc = "done" /\ thrown.name = "LowConfidenceError" /\ http = "returned"
  /\ calls = [classify |-> 1, addLabels |-> 0, postComment |-> 0]

ResponseCount ==
  /\ responses <= 1
  /\ http = "received" => (responses = 0 /\ response = NoResponse)
  /\ http = "handler" => (responses = 0 /\ response = NoResponse /\ sigResult = "true")
  /\ http = "responded" => (responses = 1 /\ response.status \in {200, 400, 401, 500})
  /\ task.pc # "none" => (http = "responded" /\ response.status = 200 /\ response.processed = "true")
\* what a step does to the request: the middleware answers or hands over without answering, the
\* handler answers, and nothing touches the response once it is written
StepAnswers ==
  /\ http = "received" => \/ http' = "handler" /\ responses' = 0
                          \/ http' = "responded" /\ responses' = 1 /\ response' # NoResponse
  /\ http = "handler" => (http' = "responded" /\ responses' = 1 /\ response' # NoResponse)
  /\ http = "responded" => (http' = "responded" /\ responses' = 1 /\ response' = response)
\* C39: a webhook request gets exactly one HTTP response from the middleware and handleWebhook taken
\* together: none before one of them answers, exactly one when the middleware rejects or the handler
\* returns on any of its paths, and never a second one, whatever the detached task does later.
C39_ExactlyOneResponse == [][ResponseCount /\ ResponseCount' /\ StepAnswers]_vars
\* the request was accepted and answered, the detached task then failed: still one response, the 200
C39_Witness ==
  /\ http = "responded" /\ responses = 1 /\ response.status = 200 /\ response.processed = "true"
  /\ task.pc = "done" /\ ~result.success /\ thrown # NoError

\* C40: a failed removal does not stop the others: every label's request is issued at the start, the
\* requests still in flight when the call fails run to their end, and a label whose own request
\* succeeded is gone from the issue although the call as a whole failed with an error other than a 404.
C40_FailureDoesNotCancel ==
  /\ [](removal.pc = "rejected" =>
          /\ Len(removal.items) = Len(removal.labels)
          /\ removal.error.apiStatusCode # 404
          /\ \A i \in Items : ItemDeleted(i) => removal.labels[i] \notin issueLabels)
  /\ (removal.pc = "rejected") ~> (removal.pc = "rejected" /\ \A i \in Items : ItemSettled(i))
\* the call failed on a time-out, another request failed later with a 500, and a third label, which the
\* issue carried, was deleted all the same
C40_Witness ==
  /\ removal.pc = "rejected" /\ removal.error.name = "TimeoutError"
  /\ \A i \in Items : ItemSettled(i)
  /\ \E i, j, k \in Items :
       /\ ItemReply(i).kind = "abort" /\ ItemReply(k).status = 500
       /\ ItemDeleted(j) /\ removal.labels[j] \in SeqRange(req.body.labels)
       /\ removal.labels[j] \notin issueLabels

====
